---- MODULE Spec2Model ----
(***************************************************************************)
(* Smartpix backend: signup / login / token check (backend/auth), and the  *)
(* image lifecycle upload / edit / list / delete / download (backend/api). *)
(*                                                                         *)
(* Every handler is an async coroutine.  Each awaited Document Store call  *)
(* takes effect at its own moment, so a handler is a sequence of atomic    *)
(* steps, one per store operation, and steps of different requests         *)
(* interleave freely.  Synchronous code that follows an await in the       *)
(* handler (file writes, os.remove, os.path.exists) is a later moment than *)
(* the store operation it follows.                                         *)
(*                                                                         *)
(* The protected routes (delete, downloads) are taken after their bearer   *)
(* token was accepted: their subject is the token's "sub".  Identifiers    *)
(* are well-formed ObjectId strings (the 400 answers are not modelled).    *)
(*                                                                         *)
(* Not modelled: timestamps of documents (uploaded_at, edited_at,          *)
(* created_at), tags, prompt, intensity, username and the _id of edit      *)
(* documents: the handlers never read them back in a condition.            *)
(***************************************************************************)
EXTENDS Integers, FiniteSets, Sequences, TLC

(* ---------------------------- bounds ---------------------------------- *)
NumProcs == 2          \* requests handled concurrently
MaxObjectIds == 3      \* ObjectId() values generated in one run
NumSubjects == 2       \* user ids callers supply / tokens carry
NumFilenames == 1      \* distinct upload filenames
NumBytes == 1          \* distinct upload contents
MaxNow == 8            \* clock range, in days
MaxTokens == 1         \* session tokens kept by clients
NumEmails == 2
NumPasswords == 2
NumUploadBytes == 2    \* distinct upload contents of the upload specification

Procs == 1..NumProcs
ObjectIds == 1..MaxObjectIds
Subjects == 1..NumSubjects
Filenames == 1..NumFilenames
Contents == 1..NumBytes
Emails == 1..NumEmails
Passwords == 1..NumPasswords
UploadContents == 1..NumUploadBytes

NoFile == 0            \* the path does not exist on disk
NoId == 0

(* prompts.keys() of process_image: the supported edit types *)
EditTypes == {"enhance", "restore", "retouch", "style", "background"}
(* edit_type values requests carry: a supported one and an unsupported one *)
EditTypeInputs == {"enhance", "blur"}

VARIABLES
    users,      \* users_collection: set of [id, email, password_hash]
    images,     \* images_collection: set of [id, user_id, filename]
    edits,      \* edits_collection: set of [image_id, user_id, edit_type, edited_url]
    uploads,    \* static/uploads: filename -> content, NoFile when absent
    processed,  \* static/processed: output filename (an ObjectId) -> content
    nextId,     \* next ObjectId() value
    now,        \* datetime.utcnow(), in days
    tokens,     \* session tokens issued so far and kept by clients
    req,        \* per concurrent request: position in its handler and its locals
    last,       \* the most recent HTTP response
    deleted,    \* history: <<subject, image id>> of every delete that returned "deleted"
    hist        \* history of uploads: written[f] is the content of the latest write to
                \* filename f; sent holds <<image id, content>> of every finished upload

vars == <<users, images, edits, uploads, processed, nextId, now, tokens, req, last, deleted,
          hist>>

(* ------------------------ request bookkeeping -------------------------- *)
(* A request in flight: pc is the store operation it performs next; doc is *)
(* what its find_one returned ({} or one document); out is the filename it *)
(* writes; data is the content an upload carries; snap is the listing's    *)
(* batch of images; late holds the image                                   *)
(* ids, among those the request names, whose delete by the request's       *)
(* subject had already answered "deleted" when its first lookup ran.       *)
Idle == [pc |-> "idle", user |-> NoId, image |-> NoId, etype |-> "", doc |-> {},
         out |-> NoId, snap |-> {}, late |-> {}, cred |-> <<0, 0>>, data |-> 0]

NoResponse == [op |-> "none", user |-> NoId, image |-> NoId, etype |-> "",
               result |-> "none", data |-> 0, list |-> {}, late |-> {},
               cred |-> <<0, 0>>, token |-> {}]

(* A response leaves the handler: the request slot is free again. *)
Respond(p, r) ==
    /\ last' = r
    /\ req' = [req EXCEPT ![p] = Idle]

(* ObjectId() values still to be generated by requests in flight. *)
Reserved == Cardinality({q \in Procs : req[q].pc \in {"up_insert", "ed_process", "su_insert"}})

CanAllocate == nextId + Reserved <= MaxObjectIds

(* ------------------------- Document Store ------------------------------ *)
(* find_one(filter): {} when nothing matches, else one matching document.  *)
(* The store promises no order among several matches.                      *)
FindOne(matching) == IF matching = {} THEN {{}} ELSE {{d} : d \in matching}

(* images_collection filter {"_id": i} *)
ImageById(i) == {d \in images : d.id = i}

(* the ownership filter left out of the query *)
ImageByIdIgnoringOwner(s, i) == {d \in images : d.id = i}

(* images_collection filter {"_id": i, "user_id": s} *)
ImageByIdAndOwner(s, i) == {d \in images : d.id = i /\ d.user_id = s}

(* the ownership filter left out of the query *)
EditByImageIgnoringOwner(s, i) == {e \in edits : e.image_id = i}

(* edits_collection filter {"image_id": i, "user_id": s} *)
EditByImageAndOwner(s, i) == {e \in edits : e.image_id = i /\ e.user_id = s}

(* edits_collection filter {"image_id": i} *)
EditByImage(i) == {e \in edits : e.image_id = i}

(* The content the opaque edit service derives from an original. *)
Derived(content) == 10 + content

(* ------------------------------ upload --------------------------------- *)
(* a file opened for exclusive creation: an existing file is left as it is *)
WriteFileIfAbsent(dir, f, b) ==
    [x \in DOMAIN dir \cup {f} |->
        IF x = f /\ (f \notin DOMAIN dir \/ dir[f] = NoFile) THEN b ELSE dir[x]]

(* open(path, "wb") and write: the file at path is created or replaced *)
WriteFile(dir, f, b) == [x \in DOMAIN dir \cup {f} |-> IF x = f THEN b ELSE dir[x]]

(* open(upload_path, "wb") + copyfileobj: the blob is written first.       *)
UploadWrite(p, u, f, b) ==
    /\ req[p].pc = "idle"
    /\ CanAllocate
    /\ uploads' = WriteFile(uploads, f, b)
    /\ hist' = [hist EXCEPT !.written = [hist.written EXCEPT ![f] = b]]
    /\ req' = [req EXCEPT ![p] = [Idle EXCEPT !.pc = "up_insert", !.user = u, !.out = f,
                                              !.data = b]]
    /\ UNCHANGED <<users, images, edits, processed, nextId, now, tokens, last, deleted>>

(* images_collection.insert_one(image_doc) *)
UploadInsert(p) ==
    /\ req[p].pc = "up_insert"
    /\ images' = images \cup {[id |-> nextId, user_id |-> req[p].user, filename |-> req[p].out]}
    /\ nextId' = nextId + 1
    /\ Respond(p, [NoResponse EXCEPT !.op = "upload", !.user = req[p].user,
                                     !.image = nextId, !.result = "Ok",
                                     !.data = req[p].out])
    /\ hist' = [hist EXCEPT !.sent = hist.sent \cup {<<nextId, req[p].data>>}]
    /\ UNCHANGED <<users, edits, uploads, processed, now, tokens, deleted>>

(* -------------------------------- edit --------------------------------- *)
(* the edit type check left out *)
AnyTypeSupported(t) == TRUE

(* process_image validates the edit type: edit_type in prompts.            *)
Supported(t) == t \in EditTypes

(* f"/static/processed/{output_filename}" and edit["edited_url"].split("/")[-1] *)
EditedUrl(out) == <<"static", "processed", out>>

Basename(url) == url[Len(url)]

TheDoc(p) == CHOOSE d \in req[p].doc : TRUE

DeletedBy(s) == {i \in ObjectIds : <<s, i>> \in deleted}

(* images_collection.find_one({"_id": image_object_id}); 404 when absent.  *)
(* The caller's user_id is not compared with the image's owner.            *)
EditFind(p, u, i, t) ==
    /\ req[p].pc = "idle"
    /\ CanAllocate
    /\ \E d \in FindOne(ImageById(i)) :
         IF d = {}
         THEN Respond(p, [NoResponse EXCEPT !.op = "edit", !.user = u, !.image = i,
                                            !.etype = t, !.result = "NotFound"])
         ELSE /\ req' = [req EXCEPT ![p] = [Idle EXCEPT !.pc = "ed_process", !.user = u,
                                                        !.image = i, !.etype = t, !.doc = d]]
              /\ UNCHANGED last
    /\ UNCHANGED <<users, images, edits, uploads, processed, nextId, now, tokens, deleted, hist>>

(* the output named after the source image, not after a fresh ObjectId() *)
OutputFilenameFromImage(p) == req[p].image

(* output_filename = f"{ObjectId()}.jpg" *)
OutputFilename(p) == nextId

(* output_filename = f"{ObjectId()}.jpg"; process_image(input_path, output_path, ...): *)
(* the edit type is checked, the original is opened, the service is called *)
(* and its answer is written to output_path.  An ObjectId() spent on a     *)
(* failed call names no file and no document, so it is not counted.        *)
EditProcess(p) ==
    /\ req[p].pc = "ed_process"
    /\ LET f == TheDoc(p).filename
           fail(kind) == Respond(p, [NoResponse EXCEPT !.op = "edit", !.user = req[p].user,
                                                       !.image = req[p].image,
                                                       !.etype = req[p].etype,
                                                       !.result = kind])
       IN  IF ~Supported(req[p].etype)
           THEN fail("InvalidEditType") /\ UNCHANGED <<processed, nextId>>
           ELSE IF uploads[f] = NoFile
           THEN fail("StorageFailure") /\ UNCHANGED <<processed, nextId>>
           ELSE \/ fail("EditServiceFailure") /\ UNCHANGED <<processed, nextId>>
                \/ /\ processed' = WriteFile(processed, OutputFilename(p), Derived(uploads[f]))
                   /\ nextId' = nextId + 1
                   /\ req' = [req EXCEPT ![p].pc = "ed_insert", ![p].out = OutputFilename(p)]
                   /\ UNCHANGED last
    /\ UNCHANGED <<users, images, edits, uploads, now, tokens, deleted, hist>>

(* edits_collection.insert_one(edit_doc) *)
EditInsert(p) ==
    /\ req[p].pc = "ed_insert"
    /\ edits' = edits \cup {[image_id |-> req[p].image, user_id |-> req[p].user,
                             edit_type |-> req[p].etype,
                             edited_url |-> EditedUrl(req[p].out)]}
    /\ Respond(p, [NoResponse EXCEPT !.op = "edit", !.user = req[p].user,
                                     !.image = req[p].image, !.etype = req[p].etype,
                                     !.result = "Ok", !.data = req[p].out])
    /\ UNCHANGED <<users, images, uploads, processed, nextId, now, tokens, deleted, hist>>

(* ------------------------------- delete -------------------------------- *)
(* images_collection.find_one({"_id": ..., "user_id": ...}); 404 when absent *)
DeleteFind(p, s, i) ==
    /\ req[p].pc = "idle"
    /\ \E d \in FindOne(ImageByIdAndOwner(s, i)) :
         IF d = {}
         THEN Respond(p, [NoResponse EXCEPT !.op = "delete", !.user = s, !.image = i,
                                            !.result = "NotFound"])
         ELSE /\ req' = [req EXCEPT ![p] = [Idle EXCEPT !.pc = "del_image", !.user = s,
                                                        !.image = i, !.doc = d]]
              /\ UNCHANGED last
    /\ UNCHANGED <<users, images, edits, uploads, processed, nextId, now, tokens, deleted, hist>>

(* images_collection.delete_one({"_id": image_object_id}) *)
DeleteImageDoc(p) ==
    /\ req[p].pc = "del_image"
    /\ images' = {d \in images : d.id # req[p].image}
    /\ req' = [req EXCEPT ![p].pc = "del_edits"]
    /\ UNCHANGED <<users, edits, uploads, processed, nextId, now, tokens, last, deleted, hist>>

(* edits_collection.delete_many({"image_id": image_object_id}) *)
DeleteEdits(p) ==
    /\ req[p].pc = "del_edits"
    /\ edits' = {e \in edits : e.image_id # req[p].image}
    /\ req' = [req EXCEPT ![p].pc = "del_file"]
    /\ UNCHANGED <<users, images, uploads, processed, nextId, now, tokens, last, deleted, hist>>

(* os.remove(UPLOAD_DIR/filename), FileNotFoundError ignored; {"status": "deleted"} *)
DeleteFile(p) ==
    /\ req[p].pc = "del_file"
    /\ uploads' = [uploads EXCEPT ![TheDoc(p).filename] = NoFile]
    /\ deleted' = deleted \cup {<<req[p].user, req[p].image>>}
    /\ Respond(p, [NoResponse EXCEPT !.op = "delete", !.user = req[p].user,
                                     !.image = req[p].image, !.result = "Ok"])
    /\ UNCHANGED <<users, images, edits, processed, nextId, now, tokens, hist>>

(* ------------------------------ downloads ------------------------------ *)
(* images_collection.find_one({"_id": ..., "user_id": ...}); 404 when absent *)
OriginalFind(p, s, i) ==
    /\ req[p].pc = "idle"
    /\ \E d \in FindOne(ImageByIdAndOwner(s, i)) :
         IF d = {}
         THEN Respond(p, [NoResponse EXCEPT !.op = "fetchOriginal", !.user = s, !.image = i,
                                            !.result = "NotFound",
                                            !.late = {i} \cap DeletedBy(s)])
         ELSE /\ req' = [req EXCEPT ![p] = [Idle EXCEPT !.pc = "fo_file", !.user = s,
                                                        !.image = i, !.doc = d,
                                                        !.late = {i} \cap DeletedBy(s)]]
              /\ UNCHANGED last
    /\ UNCHANGED <<users, images, edits, uploads, processed, nextId, now, tokens, deleted, hist>>

(* os.path.exists(UPLOAD_DIR/filename), 404 when absent; FileResponse *)
OriginalFile(p) ==
    /\ req[p].pc = "fo_file"
    /\ LET f == TheDoc(p).filename
           r == [NoResponse EXCEPT !.op = "fetchOriginal", !.user = req[p].user,
                                   !.image = req[p].image, !.late = req[p].late]
       IN  IF uploads[f] = NoFile
           THEN Respond(p, [r EXCEPT !.result = "NotFound"])
           ELSE Respond(p, [r EXCEPT !.result = "Ok", !.data = uploads[f]])
    /\ UNCHANGED <<users, images, edits, uploads, processed, nextId, now, tokens, deleted, hist>>

(* edits_collection.find_one({"image_id": ..., "user_id": ...}); 404 when absent *)
EditedFind(p, s, i) ==
    /\ req[p].pc = "idle"
    /\ \E e \in FindOne(EditByImageAndOwner(s, i)) :
         IF e = {}
         THEN Respond(p, [NoResponse EXCEPT !.op = "fetchEdited", !.user = s, !.image = i,
                                            !.result = "NotFound",
                                            !.late = {i} \cap DeletedBy(s)])
         ELSE /\ req' = [req EXCEPT ![p] = [Idle EXCEPT !.pc = "fe_file", !.user = s,
                                                        !.image = i, !.doc = e,
                                                        !.late = {i} \cap DeletedBy(s)]]
              /\ UNCHANGED last
    /\ UNCHANGED <<users, images, edits, uploads, processed, nextId, now, tokens, deleted, hist>>

(* os.path.exists(EDIT_DIR/filename), 404 when absent; FileResponse *)
EditedFile(p) ==
    /\ req[p].pc = "fe_file"
    /\ LET f == Basename(TheDoc(p).edited_url)
           r == [NoResponse EXCEPT !.op = "fetchEdited", !.user = req[p].user,
                                   !.image = req[p].image, !.late = req[p].late]
       IN  IF f \notin DOMAIN processed
           THEN Respond(p, [r EXCEPT !.result = "NotFound"])
           ELSE Respond(p, [r EXCEPT !.result = "Ok", !.data = processed[f]])
    /\ UNCHANGED <<users, images, edits, uploads, processed, nextId, now, tokens, deleted, hist>>

(* ------------------------------- listing ------------------------------- *)
(* images_collection.find({"user_id": user_object_id}): the cursor's batch *)
ListFind(p, u) ==
    /\ req[p].pc = "idle"
    /\ req' = [req EXCEPT ![p] = [Idle EXCEPT !.pc = "ls_edits", !.user = u,
                                              !.snap = {d \in images : d.user_id = u},
                                              !.late = DeletedBy(u)]]
    /\ UNCHANGED <<users, images, edits, uploads, processed, nextId, now, tokens, last, deleted, hist>>

Summary(d, e) ==
    [id |-> d.id, name |-> d.filename,
     editedImageUrl |-> IF e = {} THEN <<>> ELSE (CHOOSE x \in e : TRUE).edited_url,
     editType |-> IF e = {} THEN "" ELSE (CHOOSE x \in e : TRUE).edit_type]

(* the loop body: edits_collection.find_one({"image_id": image["_id"]}) and *)
(* images.append({...}) for each image of the batch, then the response     *)
ListEdits(p) ==
    /\ req[p].pc = "ls_edits"
    /\ \E sel \in [req[p].snap -> SUBSET edits] :
         /\ \A d \in req[p].snap : sel[d] \in FindOne(EditByImage(d.id))
         /\ Respond(p, [NoResponse EXCEPT !.op = "list", !.user = req[p].user,
                                          !.late = req[p].late,
                                          !.list = {Summary(d, sel[d]) : d \in req[p].snap}])
    /\ UNCHANGED <<users, images, edits, uploads, processed, nextId, now, tokens, deleted, hist>>

(* -------------------------------- auth --------------------------------- *)
(* The clock counts days; JWT "exp" is kept in minutes as the code sets it. *)
ACCESS_TOKEN_EXPIRE_MINUTES == 60 * 24 * 7

MinutesPerDay == 60 * 24

UtcNow == now * MinutesPerDay

(* os.getenv("SECRET_KEY"): one value for signup, login and the routers.   *)
SECRET_KEY == "secret"

(* bcrypt.hash(password): a salted digest *)
hash_password(password, salt) == [salt |-> salt, digest |-> <<salt, password>>]

(* bcrypt.verify(plain_password, hashed): re-hash with the hash's own salt *)
verify_password(plain_password, hashed) ==
    hash_password(plain_password, hashed.salt) = hashed

(* a lookup on a field the user documents do not carry: it matches nothing *)
NoUserByEmail(e) == {}

(* users_collection filter {"email": e} *)
UserByEmail(e) == {u \in users : u.email = e}

(* jwt.encode({"sub": user_id, "exp": utcnow() + timedelta(minutes=...)}, SECRET_KEY) *)
IssueToken(user_id) ==
    [sub |-> user_id, exp |-> UtcNow + ACCESS_TOKEN_EXPIRE_MINUTES, key |-> SECRET_KEY]

(* the expiry left unverified *)
get_current_user_any_age(token) ==
    IF token.key # "secret" \/ token.sub = 0
    THEN [result |-> "Unauthenticated", user |-> 0]
    ELSE [result |-> "Ok", user |-> token.sub]

(* jwt.decode(token, SECRET_KEY): JWTError on a bad signature or when      *)
(* exp < now; get_current_user turns it, and an empty "sub", into 401.     *)
get_current_user(token) ==
    IF token.key # SECRET_KEY \/ token.exp < UtcNow \/ token.sub = NoId
    THEN [result |-> "Unauthenticated", user |-> NoId]
    ELSE [result |-> "Ok", user |-> token.sub]

(* Clients keep at most MaxTokens tokens; a newer one replaces any of them. *)
Keep(token) ==
    IF Cardinality(tokens \cup {token}) <= MaxTokens
    THEN {tokens \cup {token}}
    ELSE {(tokens \ {t}) \cup {token} : t \in tokens}

(* users_collection.find_one({"email": data.email}); 400 when one exists *)
SignupFind(p, e, pw) ==
    /\ req[p].pc = "idle"
    /\ CanAllocate
    /\ \E u \in FindOne(UserByEmail(e)) :
         IF u # {}
         THEN Respond(p, [NoResponse EXCEPT !.op = "signup", !.cred = <<e, pw>>,
                                            !.result = "DuplicateIdentity"])
         ELSE /\ req' = [req EXCEPT ![p] = [Idle EXCEPT !.pc = "su_insert", !.cred = <<e, pw>>]]
              /\ UNCHANGED last
    /\ UNCHANGED <<users, images, edits, uploads, processed, nextId, now, tokens, deleted, hist>>

(* hash_password, users_collection.insert_one(user), jwt.encode, response *)
SignupInsert(p) ==
    /\ req[p].pc = "su_insert"
    /\ users' = users \cup {[id |-> nextId, email |-> req[p].cred[1],
                             password_hash |-> hash_password(req[p].cred[2], nextId)]}
    /\ nextId' = nextId + 1
    /\ \E kept \in Keep(IssueToken(nextId)) : tokens' = kept
    /\ Respond(p, [NoResponse EXCEPT !.op = "signup", !.cred = req[p].cred, !.user = nextId,
                                     !.result = "Ok"])
    /\ UNCHANGED <<images, edits, uploads, processed, now, deleted, hist>>

(* users_collection.find_one({"email": username}); verify_password; jwt.encode *)
Login(p, e, pw) ==
    /\ req[p].pc = "idle"
    /\ \E u \in FindOne(UserByEmail(e)) :
         IF u = {} \/ ~verify_password(pw, (CHOOSE x \in u : TRUE).password_hash)
         THEN /\ Respond(p, [NoResponse EXCEPT !.op = "login", !.cred = <<e, pw>>,
                                               !.result = "InvalidCredentials"])
              /\ UNCHANGED tokens
         ELSE LET user_id == (CHOOSE x \in u : TRUE).id
              IN  /\ \E kept \in Keep(IssueToken(user_id)) : tokens' = kept
                  /\ Respond(p, [NoResponse EXCEPT !.op = "login", !.cred = <<e, pw>>,
                                                   !.user = user_id, !.result = "Ok"])
    /\ UNCHANGED <<users, images, edits, uploads, processed, nextId, now, deleted, hist>>

(* Bearer tokens a client can present: the ones it was issued, and the     *)
(* same claims signed with a key that is not SECRET_KEY.                    *)
Presentable == tokens \cup {[t EXCEPT !.key = "forged"] : t \in tokens}

(* Depends(get_current_user) on a protected route *)
Authenticate(p, token) ==
    /\ req[p].pc = "idle"
    /\ Respond(p, [NoResponse EXCEPT !.op = "authenticate", !.token = {token},
                                     !.result = get_current_user(token).result,
                                     !.user = get_current_user(token).user])
    /\ UNCHANGED <<users, images, edits, uploads, processed, nextId, now, tokens, deleted, hist>>

(* time passes *)
Tick ==
    /\ now < MaxNow
    /\ now' = now + 1
    /\ UNCHANGED <<users, images, edits, uploads, processed, nextId, tokens, req, last, deleted, hist>>

Init ==
    /\ users = {}
    /\ images = {}
    /\ edits = {}
    /\ uploads = [f \in Filenames |-> NoFile]
    /\ processed = <<>>
    /\ nextId = 1
    /\ now = 0
    /\ tokens = {}
    /\ req = [p \in Procs |-> Idle]
    /\ last = NoResponse
    /\ deleted = {}
    /\ hist = [written |-> [f \in Filenames |-> NoFile], sent |-> {}]

Next ==
    \/ \E p \in Procs, u \in Subjects, f \in Filenames, b \in Contents : UploadWrite(p, u, f, b)
    \/ \E p \in Procs : UploadInsert(p)
    \/ \E p \in Procs, u \in Subjects, i \in ObjectIds, t \in EditTypeInputs : EditFind(p, u, i, t)
    \/ \E p \in Procs : EditProcess(p)
    \/ \E p \in Procs : EditInsert(p)
    \/ \E p \in Procs, s \in Subjects, i \in ObjectIds : DeleteFind(p, s, i)
    \/ \E p \in Procs : DeleteImageDoc(p)
    \/ \E p \in Procs : DeleteEdits(p)
    \/ \E p \in Procs : DeleteFile(p)
    \/ \E p \in Procs, s \in Subjects, i \in ObjectIds : OriginalFind(p, s, i)
    \/ \E p \in Procs : OriginalFile(p)
    \/ \E p \in Procs, s \in Subjects, i \in ObjectIds : EditedFind(p, s, i)
    \/ \E p \in Procs : EditedFile(p)
    \/ \E p \in Procs, u \in Subjects : ListFind(p, u)
    \/ \E p \in Procs : ListEdits(p)

Spec == Init /\ [][Next]_vars

NextAuth ==
    \/ \E p \in Procs, e \in Emails, pw \in Passwords : SignupFind(p, e, pw)
    \/ \E p \in Procs : SignupInsert(p)
    \/ \E p \in Procs, e \in Emails, pw \in Passwords : Login(p, e, pw)
    \/ \E p \in Procs, token \in Presentable : Authenticate(p, token)
    \/ Tick

SpecAuth == Init /\ [][NextAuth]_vars

(* Uploads, deletes and downloads of originals alone, over more contents.  *)
NextUpload ==
    \/ \E p \in Procs, u \in Subjects, f \in Filenames, b \in UploadContents :
           UploadWrite(p, u, f, b)
    \/ \E p \in Procs : UploadInsert(p)
    \/ \E p \in Procs, s \in Subjects, i \in ObjectIds : DeleteFind(p, s, i)
    \/ \E p \in Procs : DeleteImageDoc(p)
    \/ \E p \in Procs : DeleteEdits(p)
    \/ \E p \in Procs : DeleteFile(p)
    \/ \E p \in Procs, s \in Subjects, i \in ObjectIds : OriginalFind(p, s, i)
    \/ \E p \in Procs : OriginalFile(p)

SpecUpload == Init /\ [][NextUpload]_vars

(* ============================== claims ================================= *)

(* C1: referential integrity of edits. In every reachable state, the       *)
(* intermediate states of interleaved requests included, every Edit        *)
(* record's image reference is the id of an Image record that exists.      *)
EditsReferenceExistingImages ==
    \A e \in edits : \E d \in images : d.id = e.image_id

(* C2: owner consistency of edits. After any sequence of uploads and edit  *)
(* requests, with any supplied user ids, every Edit record's user          *)
(* reference equals the owner of the Image record it references.           *)
EditOwnerIsImageOwner ==
    \A e \in edits : \A d \in images : d.id = e.image_id => e.user_id = d.user_id

(* C3: once deleteImage(A, I) has succeeded for an image owned by A, every *)
(* later fetchOriginal(A, I) and fetchEdited(A, I) answers NotFound,       *)
(* whatever other requests ran before or between them.                     *)
FetchAfterDeleteIsNotFound ==
    (last.op \in {"fetchOriginal", "fetchEdited"} /\ last.late # {})
        => last.result = "NotFound"

(* C4: delete cascades to edits. After deleteImage(subject, I) succeeds no *)
(* Edit record references I, and a listing for that user made afterwards   *)
(* has no summary for I.                                                   *)
DeleteLeavesNoTrace ==
    /\ \A sd \in deleted : EditByImage(sd[2]) = {}
    /\ last.op = "list" => \A x \in last.list : x.id \notin last.late
(* C5: a signup whose email no User record carries succeeds and persists   *)
(* exactly one User record, with that email; a signup whose lookup runs    *)
(* once a record with its email is stored (any signup issued after the     *)
(* first one completed) fails with DuplicateIdentity and leaves the user   *)
(* collection unchanged.                                                   *)
SignupFreshOnceThenDuplicate ==
    [][\A p \in Procs :
         /\ (req[p].pc = "idle" /\ req'[p].pc = "su_insert")
                => /\ \A u \in users : u.email # req'[p].cred[1]
                   /\ users' = users
         /\ (req[p].pc = "su_insert" /\ req'[p].pc = "idle")
                => /\ last'.op = "signup" /\ last'.result = "Ok"
                   /\ Cardinality(users' \ users) = 1
                   /\ users \subseteq users'
                   /\ \A u \in users' \ users :
                          u.email = req[p].cred[1] /\ u.id = last'.user
         /\ (req' = req /\ last' # last /\ last'.op = "signup")
                => /\ last'.result = "DuplicateIdentity"
                   /\ \E u \in users : u.email = last'.cred[1]
                   /\ users' = users
      ]_vars

(* C5 witness: a signup was refused for an email that one stored User      *)
(* record, persisted by an earlier signup, carries.                        *)
SignupRefusedAsDuplicate ==
    /\ last.op = "signup" /\ last.result = "DuplicateIdentity"
    /\ Cardinality({u \in users : u.email = last.cred[1]}) = 1
(* C6: for every (email, password) and every state of the user collection, *)
(* login succeeds, returning that user's id, if and only if a User record  *)
(* with that email exists whose stored hash verifies the password; in      *)
(* every other case it fails with InvalidCredentials.                      *)
LoginIffCredentialsMatch ==
    last.op = "login" =>
        LET matching == {u \in users :
                            /\ u.email = last.cred[1]
                            /\ u.password_hash.digest = <<u.password_hash.salt, last.cred[2]>>}
        IN  /\ last.result = "Ok" <=> matching # {}
            /\ last.result = "Ok" => last.user \in {u.id : u \in matching}
            /\ last.result # "Ok" => last.result = "InvalidCredentials"
TokenGoodForSevenDays ==
    [][/\ \A t \in tokens' \ tokens :
            /\ last'.op \in {"signup", "login"} /\ last'.result = "Ok"
            /\ t = [sub |-> last'.user, exp |-> now * 24 * 60 + 7 * 24 * 60, key |-> "secret"]
       /\ (last' # last /\ last'.op \in {"signup", "login"} /\ last'.result = "Ok")
            => [sub |-> last'.user, exp |-> now * 24 * 60 + 7 * 24 * 60,
                key |-> "secret"] \in tokens'
       /\ (last' # last /\ last'.op = "authenticate")
            => \A t \in last'.token :
                   t \in tokens =>
                       /\ now * 24 * 60 < t.exp
                              => last'.result = "Ok" /\ last'.user = t.sub
                       /\ now * 24 * 60 > t.exp
                              => last'.result = "Unauthenticated"
      ]_vars

(* C8 witness: an issued token was presented after its expiry and refused. *)
ExpiredTokenRefused ==
    /\ last.op = "authenticate" /\ last.result = "Unauthenticated"
    /\ \E t \in last.token : t.key = "secret" /\ t.exp < now * 24 * 60 /\ t \in tokens

(* C9: deleteImage(subject, I) fails with NotFound unless an Image record  *)
(* with id I and owner subject exists; when it fails, the Image            *)
(* collection, the Edit collection and the Blob Store are left unchanged.  *)
DeleteOnlyByOwner ==
    [][\A p \in Procs :
         /\ (req' = req /\ last' # last /\ last'.op = "delete")
                => /\ last'.result = "NotFound"
                   /\ ~\E d \in images : d.id = last'.image /\ d.user_id = last'.user
                   /\ UNCHANGED <<images, edits, uploads, processed>>
         /\ (req[p].pc = "idle" /\ req'[p].pc = "del_image")
                => \E d \in images : d.id = req'[p].image /\ d.user_id = req'[p].user
         /\ (req[p].pc \in {"del_image", "del_edits", "del_file"} /\ req'[p] # req[p])
                => /\ images' \subseteq images /\ images \ images' \subseteq req[p].doc
                   /\ \A d \in req[p].doc : d.id = req[p].image /\ d.user_id = req[p].user
      ]_vars

(* C9 witness: a delete by a subject who does not own the image was        *)
(* answered NotFound, and the image is still stored.                       *)
DeleteByNonOwnerRefused ==
    /\ last.op = "delete" /\ last.result = "NotFound"
    /\ \E d \in images : d.id = last.image /\ d.user_id # last.user

(* C10: fetchOriginal(s, I) returns bytes only when an Image record I with *)
(* owner s exists and its original blob exists; fetchEdited(s, I) returns  *)
(* bytes only when an Edit record referencing I with owner s exists and    *)
(* its derived blob exists; in every other case each fails with NotFound.  *)
FetchNeedsOwnedRecordAndBlob ==
    [][\A p \in Procs :
         /\ (req' = req /\ last' # last /\ last'.op = "fetchOriginal")
                => /\ last'.result = "NotFound"
                   /\ ~\E d \in images : d.id = last'.image /\ d.user_id = last'.user
         /\ (req[p].pc = "idle" /\ req'[p].pc = "fo_file")
                => /\ req'[p].doc \subseteq images /\ req'[p].doc # {}
                   /\ \A d \in req'[p].doc : d.id = req'[p].image /\ d.user_id = req'[p].user
         /\ (req[p].pc = "fo_file" /\ req'[p] # req[p])
                => /\ last'.op = "fetchOriginal"
                   /\ last'.user = req[p].user /\ last'.image = req[p].image
                   /\ \A d \in req[p].doc :
                          IF uploads[d.filename] # 0
                          THEN last'.result = "Ok" /\ last'.data = uploads[d.filename]
                          ELSE last'.result = "NotFound"
         /\ (req' = req /\ last' # last /\ last'.op = "fetchEdited")
                => /\ last'.result = "NotFound"
                   /\ ~\E e \in edits : e.image_id = last'.image /\ e.user_id = last'.user
         /\ (req[p].pc = "idle" /\ req'[p].pc = "fe_file")
                => /\ req'[p].doc \subseteq edits /\ req'[p].doc # {}
                   /\ \A e \in req'[p].doc :
                          e.image_id = req'[p].image /\ e.user_id = req'[p].user
         /\ (req[p].pc = "fe_file" /\ req'[p] # req[p])
                => /\ last'.op = "fetchEdited"
                   /\ last'.user = req[p].user /\ last'.image = req[p].image
                   /\ \A e \in req[p].doc :
                          IF e.edited_url[3] \in DOMAIN processed
                          THEN /\ last'.result = "Ok"
                               /\ last'.data = processed[e.edited_url[3]]
                          ELSE last'.result = "NotFound"
      ]_vars

(* C10 witness: fetchOriginal by the owner of a stored Image was answered  *)
(* NotFound because the blob is gone from the upload area.                 *)
OriginalRecordWithoutBlob ==
    /\ last.op = "fetchOriginal" /\ last.result = "NotFound"
    /\ \E d \in images :
           d.id = last.image /\ d.user_id = last.user /\ uploads[d.filename] = 0
(* C11: any two successful requestEdit operations on the same Image, in    *)
(* any interleaving of their steps, each persist their own Edit record and *)
(* write to two distinct derived locators: neither overwrites the other's  *)
(* derived blob or record.                                                 *)
EditsKeepApart ==
    [][\A p \in Procs :
         /\ (req[p].pc = "ed_process" /\ req'[p].pc = "ed_insert")
                => /\ req'[p].out \notin DOMAIN processed
                   /\ DOMAIN processed' = DOMAIN processed \cup {req'[p].out}
                   /\ \A l \in DOMAIN processed : processed'[l] = processed[l]
                   /\ \A e \in edits : e.edited_url[3] # req'[p].out
                   /\ \A q \in Procs \ {p} :
                          req[q].pc = "ed_insert" => req[q].out # req'[p].out
         /\ (req[p].pc = "ed_insert" /\ req'[p] # req[p])
                => /\ last'.op = "edit" /\ last'.result = "Ok" /\ last'.data = req[p].out
                   /\ edits \subseteq edits'
                   /\ Cardinality(edits' \ edits) = 1
                   /\ \A e \in edits' \ edits :
                          /\ e.image_id = req[p].image
                          /\ e.edited_url[3] = req[p].out
                          /\ \A e2 \in edits : e2.edited_url # e.edited_url
                   /\ processed' = processed
      ]_vars

(* C11 witness: two Edit records of one stored Image, each with its own    *)
(* derived blob.                                                           *)
TwoEditsOfOneImage ==
    \E e1, e2 \in edits :
        /\ e1.image_id = e2.image_id /\ e1.edited_url # e2.edited_url
        /\ \E d \in images : d.id = e1.image_id
        /\ {e1.edited_url[3], e2.edited_url[3]} \subseteq DOMAIN processed
(* C12: two successful uploads with the same filename, sequential or       *)
(* concurrent, by the same or different users, produce two distinct Image  *)
(* records that share one original locator; the blob at that locator holds *)
(* exactly the bytes of the upload whose blob write happened last, and     *)
(* fetchOriginal of either image returns those last-written bytes.         *)
SameFilenameLastWriteWins ==
    [][/\ \A f \in DOMAIN uploads' :
            uploads'[f] # 0 => uploads'[f] = hist'.written[f]
       /\ \A p \in Procs :
            /\ (req[p].pc = "idle" /\ req'[p].pc = "up_insert")
                   => /\ uploads'[req'[p].out] = req'[p].data
                      /\ hist'.written[req'[p].out] = req'[p].data
                      /\ \A f \in DOMAIN uploads \ {req'[p].out} : uploads'[f] = uploads[f]
            /\ (req[p].pc = "up_insert" /\ req'[p] # req[p])
                   => /\ last'.op = "upload" /\ last'.result = "Ok"
                      /\ images \subseteq images'
                      /\ Cardinality(images' \ images) = 1
                      /\ \A d \in images' \ images :
                             /\ d.id = last'.image /\ d.filename = req[p].out
                             /\ \A d2 \in images : d2.id # d.id
                      /\ uploads' = uploads
            /\ (req[p].pc = "fo_file" /\ req'[p] # req[p] /\ last'.result = "Ok")
                   => \A d \in req[p].doc : last'.data = hist.written[d.filename]
      ]_vars

(* C12 witness: two stored Images share a filename, and fetchOriginal of   *)
(* one of them returned the other upload's bytes, which were written last  *)
(* and differ from the bytes its own upload sent.                          *)
FetchReturnsOtherUploadsBytes ==
    /\ last.op = "fetchOriginal" /\ last.result = "Ok"
    /\ \E d1, d2 \in images :
           /\ d1.id # d2.id /\ d1.filename = d2.filename /\ d1.id = last.image
           /\ <<d2.id, last.data>> \in hist.sent
           /\ <<d1.id, last.data>> \notin hist.sent
           /\ hist.written[d1.filename] = last.data

(* C13: in every reachable state, whatever the interleaving of signup      *)
(* requests, the user collection holds at most one User record per email.  *)
AtMostOneUserPerEmail ==
    \A u, v \in users : u.email = v.email => u = v

(* C14: every step of a successful deleteImage(s, I) leaves every other    *)
(* stored Image J # I in place, and leaves the original blob of J as it    *)
(* was when fetchOriginal of J would have returned it, also when J was     *)
(* uploaded under the filename of I.                                       *)
DeleteLeavesOtherImagesFetchable ==
    [][\A p \in Procs :
         (req[p].pc \in {"del_image", "del_edits", "del_file"} /\ req'[p] # req[p])
             => \A d \in images :
                    d.id # req[p].image
                        => /\ d \in images'
                           /\ uploads[d.filename] # 0
                                  => uploads'[d.filename] = uploads[d.filename]
      ]_vars
====
